---- MODULE Spec2Model ----
(***************************************************************************)
(* verve-backend: the goal progress engine (verve_backend/goal.py), the    *)
(* highlight leaderboard (verve_backend/highlights/crud.py), the          *)
(* calculator registry (verve_backend/highlights/registry.py), the ISO     *)
(* week bucket (core/date_utils.py), the goal validators and the goal      *)
(* routes (api/routes/goal.py, crud.create_goal) and the highlight task    *)
(* (tasks.py).                                                             *)
(*                                                                         *)
(* Conventions.  An optional value (Python None / SQL NULL) is the empty   *)
(* tuple, a present value v is <<v>>.  Datetimes that are only compared    *)
(* with each other (created_at, current_updated, now()) are natural        *)
(* numbers read from `clock`; an activity's start is a calendar date.      *)
(***************************************************************************)
EXTENDS Integers, Sequences, FiniteSets, TLC

VARIABLES
    goal,         \* the Goal row update_goal_state works on
    activities,   \* the rows of table "activities"
    clock,        \* the value the next datetime.now() returns
    before,       \* ghost: the goal as it was when the last update_goal_state began
    calls,        \* ghost: update_goal_state calls since the last insertion (capped at 2)
    highlights,   \* the rows of table "activity_highlights"
    response,     \* what the last highlight operation returned: a get_highlights response, if any
    hl_before,    \* ghost: highlights when the last update_top_n_highlights began
    called,       \* ghost: update_top_n_highlights calls made, per <<activity id, metric>>
    last_call,    \* ghost: <<activity id, metric>> of the last call, if any
    repeat,       \* ghost: the last call repeated the call made just before it
    calculators,  \* Registry.calculators: the dict, as its items in insertion order
    results,      \* what the last Registry.run_all returned, if it ran
    invoked,      \* ghost: the metrics whose calculator the last run_all invoked
    call,         \* the function last applied and its arguments, if any
    ret,          \* what that application returned
    goals,        \* the rows of table "goals" the goal routes work on
    reply,        \* what the last goal route call answered, if any
    goals_before, \* ghost: goals when the last goal route call began
    txns          \* the requests and tasks in progress, each with what it has read so far

goalVars == <<goal, activities, clock, before, calls>>

hlVars == <<highlights, response, hl_before, called, last_call, repeat>>

regVars == <<calculators, results, invoked>>

fnVars == <<call, ret>>

apiVars == <<goals, reply, goals_before>>

vars == <<goalVars, hlVars, regVars, fnVars, apiVars, txns>>

----------------------------------------------------------------------------
(* Optional values *)

NULL == <<>>

Some(v) == <<v>>

Val(o) == o[1]

\* Python truthiness of an optional integer id: None and 0 are falsy.
Truthy(o) == o # NULL /\ Val(o) # 0

Range(s) == {s[i] : i \in DOMAIN s}

Max(a, b) == IF a >= b THEN a ELSE b

RECURSIVE SumOver(_, _)
\* sum(f(x) for x in S), f given as a function on S
SumOver(S, f) ==
    IF S = {} THEN 0
    ELSE LET x == CHOOSE y \in S : TRUE IN f[x] + SumOver(S \ {x}, f)

RECURSIVE MaxOver(_, _)
\* max(f(x) for x in S), S non-empty
MaxOver(S, f) ==
    LET x == CHOOSE y \in S : TRUE
    IN  IF S = {x} THEN f[x] ELSE Max(f[x], MaxOver(S \ {x}, f))

RECURSIVE Fact(_)
Fact(n) == IF n <= 1 THEN 1 ELSE n * Fact(n - 1)

----------------------------------------------------------------------------
(* Calendar arithmetic of datetime.date (proleptic Gregorian ordinals) *)

IsLeap(y) == (y % 4 = 0) /\ ((y % 100 # 0) \/ (y % 400 = 0))

DaysInMonth(y, m) ==
    IF m = 2 THEN (IF IsLeap(y) THEN 29 ELSE 28)
    ELSE IF m \in {4, 6, 9, 11} THEN 30 ELSE 31

RECURSIVE DaysBeforeMonth(_, _)
DaysBeforeMonth(y, m) ==
    IF m <= 1 THEN 0 ELSE DaysBeforeMonth(y, m - 1) + DaysInMonth(y, m - 1)

DaysBeforeYear(y) ==
    (y - 1) * 365 + ((y - 1) \div 4) - ((y - 1) \div 100) + ((y - 1) \div 400)

\* date(y, m, d).toordinal()
Ordinal(y, m, d) == DaysBeforeYear(y) + DaysBeforeMonth(y, m) + d

\* date.weekday(): Monday is 0
Weekday(ord) == (ord + 6) % 7

\* mutant: week 1 taken as the week that contains January 1st
get_week_date_range_Jan1(year, week) ==
    LET week_1_monday == Ordinal(year, 1, 1) - Weekday(Ordinal(year, 1, 1))
    IN  <<week_1_monday + 7 * (week - 1), week_1_monday + 7 * (week - 1) + 7>>

\* get_week_date_range(year, week): <<start, end>> as ordinals, end exclusive
get_week_date_range(year, week) ==
    LET jan_4         == Ordinal(year, 1, 4)
        week_1_monday == jan_4 - Weekday(jan_4)
        start_date    == week_1_monday + 7 * (week - 1)
        end_date      == start_date + 7
    IN  <<start_date, end_date>>

Date(y, m, d) == [year |-> y, month |-> m, day |-> d]

DateOrd(dt) == Ordinal(dt.year, dt.month, dt.day)

----------------------------------------------------------------------------
(* Bounds and inputs of the goal engine *)

\* operations (insertions and update_goal_state calls) in one behaviour
MaxOps == 5

\* goal.current is a float; it is kept here in units of 1/Unit so that the
\* quotient sum(distances) / len(activities) of at most MaxOps activities is exact
Unit == Fact(MaxOps)

UserId == "u1"

\* The activities a request may insert (created_at and id are given on insertion).
ActivityInputs ==
    { [user_id |-> "u1", start |-> Date(2025, 1, 1), distance |-> Some(10),
       duration |-> 600, type_id |-> 1, sub_type_id |-> Some(1),
       equipment |-> {"A", "B", "C"}, near |-> TRUE],
      [user_id |-> "u1", start |-> Date(2025, 1, 6), distance |-> Some(20),
       duration |-> 1200, type_id |-> 1, sub_type_id |-> NULL,
       equipment |-> {"A"}, near |-> TRUE],
      [user_id |-> "u1", start |-> Date(2025, 2, 3), distance |-> Some(60),
       duration |-> 1800, type_id |-> 2, sub_type_id |-> NULL,
       equipment |-> {"A", "B"}, near |-> FALSE],
      [user_id |-> "u1", start |-> Date(2024, 12, 30), distance |-> NULL,
       duration |-> 300, type_id |-> 1, sub_type_id |-> Some(1),
       equipment |-> {}, near |-> TRUE],
      [user_id |-> "u2", start |-> Date(2025, 1, 1), distance |-> Some(30),
       duration |-> 900, type_id |-> 1, sub_type_id |-> NULL,
       equipment |-> {"A", "B"}, near |-> TRUE] }

\* rows of the tables validate_constraints looks ids up in
ActivityTypes == {1, 2}

ActivitySubTypes == {[id |-> 1, type_id |-> 1]}

Equipments == {"A", "B", "C"}

Locations == {"L"}

GoalContraints(t, st, eq, loc) ==
    [type_id |-> t, sub_type_id |-> st, equipment_ids |-> eq, location_id |-> loc]

NoContraints == GoalContraints(NULL, NULL, <<>>, NULL)

\* mutant: the two rules on location_id and the goal type are left out
validate_constraints_NoLocationRule(goal_type, c) ==
    /\ Truthy(c.type_id) => Val(c.type_id) \in ActivityTypes
    /\ ~(~Truthy(c.type_id) /\ Truthy(c.sub_type_id))
    /\ (Truthy(c.type_id) /\ Truthy(c.sub_type_id)) =>
          \E st \in ActivitySubTypes :
              st.id = Val(c.sub_type_id) /\ st.type_id = Val(c.type_id)
    /\ \A i \in DOMAIN c.equipment_ids : c.equipment_ids[i] \in Equipments
    /\ c.location_id # NULL => Val(c.location_id) \in Locations

\* validate_constraints: TRUE when the constraints object is returned
validate_constraints(goal_type, c) ==
    /\ Truthy(c.type_id) => Val(c.type_id) \in ActivityTypes
    /\ ~(~Truthy(c.type_id) /\ Truthy(c.sub_type_id))
    /\ (Truthy(c.type_id) /\ Truthy(c.sub_type_id)) =>
          \E st \in ActivitySubTypes :
              st.id = Val(c.sub_type_id) /\ st.type_id = Val(c.type_id)
    /\ \A i \in DOMAIN c.equipment_ids : c.equipment_ids[i] \in Equipments
    /\ c.location_id # NULL =>
          (goal_type = "location" /\ Val(c.location_id) \in Locations)
    /\ goal_type = "location" => c.location_id # NULL

\* mutant: a manual goal accepts every aggregation
validate_type_aggregation_combination_ManualAny(type, aggregation) ==
    type = "location" => aggregation = "count"

\* _validate_type_aggregation_combination: TRUE when it returns None
validate_type_aggregation_combination(type, aggregation) ==
    CASE type = "location" -> aggregation = "count"
      [] type = "manual"   -> aggregation \in {"count", "duration"}
      [] type = "activity" -> TRUE

Aggregations == {"count", "total_distance", "avg_distance", "max_distance", "duration"}

\* (temporal_type, year, month, week) of the goals created
TemporalInputs ==
    { [temporal_type |-> "yearly",  year |-> 2025, month |-> NULL,    week |-> NULL],
      [temporal_type |-> "monthly", year |-> 2025, month |-> Some(1), week |-> NULL],
      [temporal_type |-> "weekly",  year |-> 2025, month |-> NULL,    week |-> Some(1)] }

ContraintInputs ==
    { GoalContraints(Some(1), NULL, <<>>, NULL),
      GoalContraints(Some(1), Some(1), <<>>, NULL),
      GoalContraints(NULL, NULL, <<"A">>, NULL),
      GoalContraints(NULL, NULL, <<"A", "B">>, NULL),
      GoalContraints(NULL, NULL, <<"A", "A">>, NULL) }

\* Goal(...) as the model's constructor leaves it: current = 0, current_updated = None
NewGoal(type, aggregation, t, c) ==
    [type |-> type, aggregation |-> aggregation, current |-> 0,
     current_updated |-> NULL, temporal_type |-> t.temporal_type, year |-> t.year,
     month |-> t.month, week |-> t.week, constraints |-> c]

GoalInputs ==
    {NewGoal("activity", agg, t, NoContraints) :
        agg \in Aggregations, t \in TemporalInputs}
    \cup
    {NewGoal("activity", agg, t, c) :
        agg \in {"count", "total_distance"},
        t \in {t \in TemporalInputs : t.temporal_type = "yearly"},
        c \in ContraintInputs}
    \cup
    {NewGoal("location", "count", t, GoalContraints(NULL, NULL, <<>>, Some("L"))) :
        t \in TemporalInputs}
    \cup
    {NewGoal("manual", "count", t, NoContraints) :
        t \in {t \in TemporalInputs : t.temporal_type = "yearly"}}

----------------------------------------------------------------------------
(* goal.py: the activity query *)

\* the join on activity_equipment, grouped by activity:
\* count(equipment_id) over the link rows whose equipment_id is IN equipment_ids
MatchedEquipmentCount(a, equipment_ids) ==
    Cardinality({e \in a.equipment : e \in Range(equipment_ids)})

\* the rows _build_activity_stmt selects, out of the table rows acts
build_activity_stmt(acts, user_id, contraints, year, month, week, last_updated, possible_activity_ids, filter_distance) ==
    { a \in acts :
        /\ a.user_id = user_id
        /\ Truthy(contraints.type_id) => a.type_id = Val(contraints.type_id)
        /\ Truthy(contraints.sub_type_id) =>
              (a.sub_type_id # NULL /\ Val(a.sub_type_id) = Val(contraints.sub_type_id))
        /\ IF month # NULL
              THEN a.start.year = year /\ a.start.month = Val(month)
           ELSE IF week # NULL
              THEN LET r == get_week_date_range(year, Val(week))
                   IN  DateOrd(a.start) >= r[1] /\ DateOrd(a.start) < r[2]
           ELSE a.start.year = year
        /\ contraints.equipment_ids # <<>> =>
              MatchedEquipmentCount(a, contraints.equipment_ids)
                  = Len(contraints.equipment_ids)
        /\ last_updated # NULL => a.created_at > Val(last_updated)
        /\ possible_activity_ids # {} =>
              /\ a.id \in possible_activity_ids
              /\ a.distance # NULL /\ Val(a.distance) # 0
        /\ filter_distance => a.distance # NULL }

\* get_activities_for_location: ids of the activities whose track passes the location
get_activities_for_location(acts) == {a.id : a \in {b \in acts : b.near}}

distance_aggregations == {"total_distance", "avg_distance", "max_distance"}

\* mutant: the cursor is never applied
LastUpdatedArg_Never(g) == NULL

\* mutant: the cursor is applied to AVG_DISTANCE too
LastUpdatedArg_Always(g) == g.current_updated

\* the last_updated argument update_goal_state passes for an activity goal
LastUpdatedArg(g) ==
    IF g.aggregation # "avg_distance" THEN g.current_updated ELSE NULL

\* the activities update_goal_state reads for goal g
FoundActivities(g, acts) ==
    IF g.type = "location"
    THEN build_activity_stmt(acts, UserId, g.constraints, g.year, g.month, g.week,
                             g.current_updated, get_activities_for_location(acts),
                             FALSE)
    ELSE build_activity_stmt(acts, UserId, g.constraints, g.year, g.month, g.week,
                             LastUpdatedArg(g), {},
                             g.aggregation \in distance_aggregations)

\* mutant: the new maximum replaces current
MaxFold_Overwrite(current, found_max) == found_max

\* max(goal.current, max(distances))
MaxFold(current, found_max) == Max(current, found_max)

\* the value update_goal_state assigns to goal.current for the activities found
\* (in units of 1/Unit); a location goal reaches here with aggregation "count" only
NewCurrent(g, found) ==
    LET dist == [a \in found |-> Val(a.distance)]
        dur  == [a \in found |-> a.duration]
    IN  CASE g.aggregation = "count" ->
                 g.current + Unit * Cardinality(found)
          [] g.aggregation = "duration" ->
                 g.current + Unit * SumOver(found, dur)
          [] g.aggregation = "total_distance" ->
                 g.current + Unit * SumOver(found, dist)
          [] g.aggregation = "avg_distance" ->
                 (Unit * SumOver(found, dist)) \div Cardinality(found)
          [] g.aggregation = "max_distance" ->
                 MaxFold(g.current, Unit * MaxOver(found, dist))

\* mutant: an empty candidate set advances the cursor as well
update_goal_state_StampOnEmpty(g, acts, now) ==
    IF g.type = "manual" THEN g
    ELSE LET found == FoundActivities(g, acts)
         IN  IF found = {} THEN [g EXCEPT !.current_updated = Some(now)]
             ELSE [g EXCEPT !.current = NewCurrent(g, found),
                            !.current_updated = Some(now)]

\* mutant: a manual goal is updated like an activity goal
update_goal_state_ManualToo(g, acts, now) ==
    LET found == FoundActivities(g, acts)
    IN  IF found = {} THEN g
        ELSE [g EXCEPT !.current = NewCurrent(g, found), !.current_updated = Some(now)]

\* update_goal_state(session, user_id, goal) with datetime.now() = now: the goal
\* as stored (and returned) when the call ends
update_goal_state(g, acts, now) ==
    IF g.type = "manual" THEN g
    ELSE LET found == FoundActivities(g, acts)
         IN  IF found = {} THEN g
             ELSE [g EXCEPT !.current = NewCurrent(g, found),
                            !.current_updated = Some(now)]

----------------------------------------------------------------------------
(* Goal engine: operations.  Calls are sequential; every operation reads the *)
(* wall clock later than the one before it.                                  *)

\* no highlight has been computed and no request for highlights was made
HighlightsIdle ==
    /\ highlights = {}
    /\ response = NULL
    /\ hl_before = {}
    /\ called = <<>>
    /\ last_call = NULL
    /\ repeat = FALSE

\* Registry(): self.calculators = {}
RegistryIdle ==
    /\ calculators = <<>>
    /\ results = NULL
    /\ invoked = <<>>

\* no function has been applied on its own
FnIdle == call = NULL /\ ret = NULL

\* no goal is stored through the routes and no route was called
ApiIdle == goals = {} /\ reply = NULL /\ goals_before = {}

\* no request and no task is in progress
TxnsIdle == txns = <<>>

InitGoal ==
    /\ goal \in GoalInputs
    /\ activities = {}
    /\ clock = 1
    /\ before = goal
    /\ calls = 0
    /\ HighlightsIdle
    /\ RegistryIdle
    /\ FnIdle
    /\ ApiIdle
    /\ TxnsIdle

\* a request stores a new activity: created_at = datetime.now() (models.py default)
InsertActivity ==
    /\ clock <= MaxOps
    /\ \E t \in ActivityInputs :
          activities' = activities \cup
              {[id |-> clock, created_at |-> clock, user_id |-> t.user_id,
                start |-> t.start, distance |-> t.distance, duration |-> t.duration,
                type_id |-> t.type_id, sub_type_id |-> t.sub_type_id,
                equipment |-> t.equipment, near |-> t.near]}
    /\ clock' = clock + 1
    /\ calls' = 0
    /\ UNCHANGED <<goal, before, hlVars, regVars, fnVars, apiVars, txns>>

\* a goal read path calls update_goal_state(goal)
UpdateGoalState ==
    /\ clock <= MaxOps
    /\ goal' = update_goal_state(goal, activities, clock)
    /\ before' = goal
    /\ calls' = IF calls < 2 THEN calls + 1 ELSE 2
    /\ clock' = clock + 1
    /\ UNCHANGED <<activities, hlVars, regVars, fnVars, apiVars, txns>>

NextGoal == InsertActivity \/ UpdateGoalState

SpecGoal == InitGoal /\ [][NextGoal]_vars

----------------------------------------------------------------------------
(* Goal engine: properties *)

\* every activity stored so far that passes the goal's user, type, sub-type,
\* temporal-bucket and equipment filters, whatever its created_at
Matching == build_activity_stmt(activities, UserId, goal.constraints, goal.year, goal.month, goal.week, NULL, {}, FALSE)

MatchingWithDistance == {a \in Matching : a.distance # NULL}

DistanceOf == [a \in activities |-> IF a.distance = NULL THEN 0 ELSE Val(a.distance)]

DurationOf == [a \in activities |-> a.duration]

\* the state right after an update_goal_state call (no insertion since)
AfterCall == calls >= 1

\* C1: for an ACTIVITY goal with aggregation COUNT, DURATION or TOTAL_DISTANCE that
\* starts at current = 0 with a null cursor, current after every update_goal_state
\* call is the count / sum of duration seconds / sum of non-null distances over all
\* matching activities inserted so far: each is folded exactly once.
C1_FoldedExactlyOnce ==
    (goal.type = "activity" /\ AfterCall) =>
        /\ goal.aggregation = "count" =>
              goal.current = Unit * Cardinality(Matching)
        /\ goal.aggregation = "duration" =>
              goal.current = Unit * SumOver(Matching, DurationOf)
        /\ goal.aggregation = "total_distance" =>
              goal.current = Unit * SumOver(MatchingWithDistance, DistanceOf)

\* C1 witness: a TOTAL_DISTANCE goal whose second folding call added activities
\* created after the cursor to a non-zero accumulator.
C1_Witness ==
    /\ goal.type = "activity" /\ goal.aggregation = "total_distance"
    /\ calls = 1
    /\ before.current_updated # NULL /\ before.current > 0
    /\ goal.current > before.current
    /\ \E a \in Matching : a.created_at < Val(before.current_updated)
    /\ \E a \in Matching : a.created_at > Val(before.current_updated)

\* C2: for every non-MANUAL goal and every aggregation, a second update_goal_state
\* call with no insertion in between leaves current and current_updated as the
\* first call left them.
C2_SecondCallChangesNothing ==
    (goal.type # "manual" /\ calls = 2) =>
        /\ goal.current = before.current
        /\ goal.current_updated = before.current_updated

\* C3: for an AVG_DISTANCE goal, after every call made while the bucket holds a
\* matching activity with a distance, current = sum of those distances / their
\* number, whatever current and the cursor were before the call.
C3_AvgIgnoresCursor ==
    (goal.type = "activity" /\ goal.aggregation = "avg_distance" /\ AfterCall
        /\ MatchingWithDistance # {}) =>
        goal.current * Cardinality(MatchingWithDistance)
            = Unit * SumOver(MatchingWithDistance, DistanceOf)

\* C3 witness: 10 and 20 folded (current = 15, cursor set), 60 added, current = 30.
C3_Witness ==
    /\ goal.type = "activity" /\ goal.aggregation = "avg_distance"
    /\ calls = 1
    /\ before.current = 15 * Unit /\ before.current_updated # NULL
    /\ {DistanceOf[a] : a \in MatchingWithDistance} = {10, 20, 60}
    /\ Cardinality(MatchingWithDistance) = 3
    /\ goal.current = 30 * Unit

\* C4: for a MAX_DISTANCE goal, current after each call is at least current after
\* the previous call and is the maximum distance over all matching activities
\* inserted so far.
C4_MaxMonotone ==
    (goal.type = "activity" /\ goal.aggregation = "max_distance" /\ AfterCall) =>
        /\ goal.current >= before.current
        /\ MatchingWithDistance # {} =>
              goal.current = Unit * MaxOver(MatchingWithDistance, DistanceOf)

\* C4 witness: a call that folded a new, shorter activity and kept the maximum.
C4_Witness ==
    /\ goal.type = "activity" /\ goal.aggregation = "max_distance"
    /\ calls = 1
    /\ before.current > 0
    /\ goal.current_updated # before.current_updated
    /\ goal.current = before.current
    /\ \E a \in MatchingWithDistance : Unit * DistanceOf[a] < goal.current

\* the goal's filters other than the equipment constraint
MatchingBesidesEquipment == build_activity_stmt(activities, UserId, [goal.constraints EXCEPT !.equipment_ids = <<>>], goal.year, goal.month, goal.week, NULL, {}, FALSE)

\* C10: for every equipment_ids list validate_constraints accepts, an activity is a
\* candidate of the goal exactly when it is linked to every id of equipment_ids.
C10_EquipmentAllOf ==
    (goal.type = "activity" /\ validate_constraints(goal.type, goal.constraints)) =>
        \A a \in activities :
            a \in Matching <=>
                /\ a \in MatchingBesidesEquipment
                /\ \A e \in Range(goal.constraints.equipment_ids) : e \in a.equipment

----------------------------------------------------------------------------
(* Highlight leaderboard: highlights/crud.py and api/routes/highlights.py *)

\* update_top_n_highlights(..., n: int = 3)
HighlightN == 3

\* update_top_n_highlights calls in one behaviour
MaxCalls == 4

Metrics == {"distance", "duration"}

Act(id, user_id, start, type_id, distance, duration) ==
    [id |-> id, created_at |-> id, user_id |-> user_id, start |-> start,
     distance |-> Some(distance), duration |-> duration, type_id |-> type_id,
     sub_type_id |-> NULL, equipment |-> {}, near |-> FALSE]

\* the stored activities highlights are computed for
HighlightActivityInputs ==
    { Act(1, "u1", Date(2024, 1, 1), 1, 50, 3600),
      Act(2, "u1", Date(2024, 1, 2), 1, 200, 3600),
      Act(3, "u1", Date(2024, 1, 3), 1, 20, 1800),
      Act(4, "u1", Date(2024, 1, 4), 1, 100, 7200),
      Act(5, "u1", Date(2023, 1, 1), 1, 500, 3600),
      Act(6, "u2", Date(2024, 2, 1), 1, 100, 600),
      Act(7, "u1", Date(2024, 2, 1), 2, 100, 1800) }

\* the value a caller passes for a metric of an activity: activity.distance
\* (calculate_distance) or the duration in seconds (calculate_duration)
ValueOf(a, metric) == IF metric = "distance" THEN Val(a.distance) ELSE a.duration

\* the year argument of get_highlights
YearArgs == {NULL, Some(2023), Some(2024)}

RECURSIVE SetToSeq(_)
\* session.exec(stmt).all(): the selected rows as a list
SetToSeq(S) ==
    IF S = {} THEN <<>>
    ELSE LET x == CHOOSE y \in S : TRUE IN <<x>> \o SetToSeq(S \ {x})

\* (a.value, a.activity_id) >= (b.value, b.activity_id), as Python compares tuples
KeyGeq(a, b) ==
    \/ a.value > b.value
    \/ a.value = b.value /\ a.activity_id >= b.activity_id

\* mutant: the comparison of an ascending sort (reverse=True left out)
KeyBefore_Ascending(a, b) == KeyGeq(b, a)

\* a stays before b when b is inserted after it by sort(key=..., reverse=True)
KeyBefore(a, b) == KeyGeq(a, b)

\* x put into the sorted list after the elements that stay before it (stable)
InsertSorted(sorted, x) ==
    LET k == Cardinality({i \in DOMAIN sorted : KeyBefore(sorted[i], x)})
    IN  SubSeq(sorted, 1, k) \o <<x>> \o SubSeq(sorted, k + 1, Len(sorted))

RECURSIVE SortCandidates(_)
\* all_candidates.sort(key=lambda h: (h.value, h.activity_id), reverse=True)
SortCandidates(seq) ==
    IF seq = <<>> THEN <<>>
    ELSE InsertSorted(SortCandidates(SubSeq(seq, 1, Len(seq) - 1)), seq[Len(seq)])

\* mutant: the list is not cut to n
Truncate_Not(seq, n) == seq

\* all_candidates[:n]
Truncate(seq, n) == SubSeq(seq, 1, IF Len(seq) < n THEN Len(seq) ELSE n)

\* mutant: the activity's start year in both scopes
YearOf_Always(scope, activity) == Some(activity.start.year)

\* year = activity.start.year if scope == YEARLY else None
YearOf(scope, activity) ==
    IF scope = "yearly" THEN Some(activity.start.year) ELSE NULL

\* the rows of one leaderboard key
KeyRows(rows, user_id, metric, scope, year, type_id) ==
    { h \in rows :
        /\ h.user_id = user_id
        /\ h.metric = metric
        /\ h.scope = scope
        /\ h.year = year
        /\ h.type_id = type_id }

\* mutant: the DELETE of a pass leaves out the filter on type_id
UpdateScope_DeleteAllTypes(rows, user_id, activity, metric, value, n, scope) ==
    LET year == YearOf(scope, activity)
        current_highlights ==
            KeyRows(rows, user_id, metric, scope, year, activity.type_id)
        candidate ==
            [user_id |-> user_id, activity_id |-> activity.id, metric |-> metric,
             scope |-> scope, year |-> year, value |-> value, rank |-> 0 - 1,
             type_id |-> activity.type_id, track_id |-> NULL]
        all_candidates ==
            SortCandidates(SetToSeq(current_highlights) \o <<candidate>>)
        top_candidates == Truncate(all_candidates, n)
    IN  IF ~\E i \in DOMAIN top_candidates :
                top_candidates[i].activity_id = activity.id
        THEN rows
        ELSE {h \in rows : ~(h.user_id = user_id /\ h.metric = metric /\ h.scope = scope /\ h.year = year)} \cup
             { [top_candidates[i] EXCEPT !.rank = (i - 1) + 1] :
                   i \in DOMAIN top_candidates }

\* one pass of the loop of update_top_n_highlights: the table after the pass
UpdateScope(rows, user_id, activity, metric, value, n, scope) ==
    LET year == YearOf(scope, activity)
        current_highlights ==
            KeyRows(rows, user_id, metric, scope, year, activity.type_id)
        candidate ==
            [user_id |-> user_id, activity_id |-> activity.id, metric |-> metric,
             scope |-> scope, year |-> year, value |-> value, rank |-> 0 - 1,
             type_id |-> activity.type_id, track_id |-> NULL]
        all_candidates ==
            SortCandidates(SetToSeq(current_highlights) \o <<candidate>>)
        top_candidates == Truncate(all_candidates, n)
    IN  IF ~\E i \in DOMAIN top_candidates :
                top_candidates[i].activity_id = activity.id
        THEN rows
        ELSE (rows \ current_highlights) \cup
             { [top_candidates[i] EXCEPT !.rank = (i - 1) + 1] :
                   i \in DOMAIN top_candidates }

\* update_top_n_highlights(session, user_id, activity=, metric=, value=, n=)
\* followed by the caller's commit: the table after it
update_top_n_highlights(rows, user_id, activity, metric, value, n) ==
    UpdateScope(UpdateScope(rows, user_id, activity, metric, value, n, "yearly"), user_id, activity, metric, value, n, "lifetime")

\* the rows a user's session sees (row level security on the user's id)
Visible(rows, user_id) == {h \in rows : h.user_id = user_id}

RECURSIVE SortByRank(_)
\* results[metric].sort(key=lambda h: h.rank)
SortByRank(seq) ==
    IF seq = <<>> THEN <<>>
    ELSE LET sorted == SortByRank(SubSeq(seq, 1, Len(seq) - 1))
             x      == seq[Len(seq)]
             k      == Cardinality({i \in DOMAIN sorted : sorted[i].rank <= x.rank})
         IN  SubSeq(sorted, 1, k) \o <<x>> \o SubSeq(sorted, k + 1, Len(sorted))

\* get_highlights(user_session, year): the response's data, metric -> rows by rank
get_highlights(rows, year) ==
    LET found == IF year # NULL
                 THEN {h \in rows : h.scope = "yearly" /\ h.year = year}
                 ELSE {h \in rows : h.scope = "lifetime"}
    IN  [m \in {h.metric : h \in found} |->
            SortByRank(SetToSeq({h \in found : h.metric = m}))]

CallKeys == {<<a.id, m>> : a \in HighlightActivityInputs, m \in Metrics}

NCalls == SumOver(DOMAIN called, called)

InitHighlights ==
    /\ activities = HighlightActivityInputs
    /\ highlights = {}
    /\ response = NULL
    /\ hl_before = {}
    /\ called = [k \in CallKeys |-> 0]
    /\ last_call = NULL
    /\ repeat = FALSE
    /\ goal = NewGoal("manual", "count", CHOOSE t \in TemporalInputs : t.temporal_type = "yearly", NoContraints)
    /\ before = goal
    /\ clock = 1
    /\ calls = 0
    /\ RegistryIdle
    /\ FnIdle
    /\ ApiIdle
    /\ TxnsIdle

\* update_top_n_highlights for a stored activity and a metric, then commit
UpdateTopNHighlights ==
    /\ NCalls < MaxCalls
    /\ \E a \in activities, m \in Metrics :
          /\ highlights' = update_top_n_highlights(highlights, a.user_id, a, m, ValueOf(a, m), HighlightN)
          /\ hl_before' = highlights
          /\ called' = [called EXCEPT ![<<a.id, m>>] = @ + 1]
          /\ repeat' = (last_call = Some(<<a.id, m>>))
          /\ last_call' = Some(<<a.id, m>>)
    /\ response' = NULL
    /\ UNCHANGED <<goalVars, regVars, fnVars, apiVars, txns>>

\* GET /highlights/ by user u1, with or without a year
GetHighlights ==
    /\ \E year \in YearArgs :
          response' = Some([year |-> year,
                            data |-> get_highlights(Visible(highlights, "u1"), year)])
    /\ UNCHANGED <<highlights, hl_before, called, last_call, repeat, goalVars, regVars, fnVars, apiVars, txns>>

NextHighlights == UpdateTopNHighlights \/ GetHighlights

SpecHighlights == InitHighlights /\ [][NextHighlights]_vars

----------------------------------------------------------------------------
(* Highlight leaderboard: properties *)

ActivityById(id) == CHOOSE a \in activities : a.id = id

\* (activity, value) strictly greater in the order the leaderboard ranks by
Outranks(b, a, metric) ==
    \/ ValueOf(b, metric) > ValueOf(a, metric)
    \/ ValueOf(b, metric) = ValueOf(a, metric) /\ b.id > a.id

\* the activities of one user and type that update_top_n_highlights was called for
CalledFor(user_id, metric, type_id) ==
    { a \in activities :
        a.user_id = user_id /\ a.type_id = type_id /\ called[<<a.id, metric>>] >= 1 }

\* the place of activity a among the activities S: 1 + how many outrank it
PlaceIn(S, a, metric) == 1 + Cardinality({b \in S : Outranks(b, a, metric)})

UserIds == {a.user_id : a \in activities}

TypeIds == {a.type_id : a \in activities}

\* C5: once update_top_n_highlights has been called exactly once for each activity
\* of a set (one user, one metric, one activity type), in any order, the LIFETIME
\* rows of the key are the min(N, count) activities with the greatest
\* (value, activity id), rank 1 the greatest.
C5_LifetimeTopN ==
    \A u \in UserIds, m \in Metrics, ty \in TypeIds :
        LET S == CalledFor(u, m, ty)
        IN  (\A a \in S : called[<<a.id, m>>] = 1) =>
                { <<h.rank, h.activity_id, h.value>> :
                      h \in KeyRows(highlights, u, m, "lifetime", NULL, ty) }
                = { <<PlaceIn(S, a, m), a.id, ValueOf(a, m)>> :
                      a \in {b \in S : PlaceIn(S, b, m) <= HighlightN} }

\* C5 witness: distances 50, 200, 20, 100 (activities 1, 2, 3, 4) each processed
\* once, the 500 one not: ranks 1..3 are 200, 100, 50 and 20 has no row.
C5_Witness ==
    /\ CalledFor("u1", "distance", 1) = {a \in activities : a.id \in {1, 2, 3, 4}}
    /\ \A id \in {1, 2, 3, 4} : called[<<id, "distance">>] = 1
    /\ { <<h.rank, h.value>> :
            h \in KeyRows(highlights, "u1", "distance", "lifetime", NULL, 1) }
       = { <<1, 200>>, <<2, 100>>, <<3, 50>> }

\* the leaderboard keys that have rows
KeysOf(rows) == { <<h.user_id, h.metric, h.scope, h.year, h.type_id>> : h \in rows }

RowsOfKey(rows, k) == KeyRows(rows, k[1], k[2], k[3], k[4], k[5])

\* C6: after any sequence of update_top_n_highlights calls, every key has at most N
\* rows, their ranks are exactly 1..count without gap or duplicate, and in rank
\* order the rows descend by (value, activity id).
C6_LeaderboardInvariant ==
    \A k \in KeysOf(highlights) :
        LET K == RowsOfKey(highlights, k)
        IN  /\ Cardinality(K) <= HighlightN
            /\ {h.rank : h \in K} = 1 .. Cardinality(K)
            /\ \A h1, h2 \in K : h1.rank < h2.rank => KeyGeq(h1, h2)

\* C6 witness: a full key that a fourth candidate was truncated out of.
C6_Witness ==
    \E k \in KeysOf(highlights) :
        /\ Cardinality(RowsOfKey(highlights, k)) = HighlightN
        /\ k[3] = "lifetime"
        /\ \E a \in CalledFor(k[1], k[2], k[5]) :
              \A h \in RowsOfKey(highlights, k) : h.activity_id # a.id

\* C7: a second update_top_n_highlights call for the same user, activity, metric
\* and value leaves the rows (activities, values, ranks, number of rows) of the
\* YEARLY and of the LIFETIME key as the first call left them.
C7_SecondCallChangesNothing ==
    repeat =>
        LET a == ActivityById(Val(last_call)[1])
            m == Val(last_call)[2]
        IN  /\ KeyRows(highlights, a.user_id, m, "yearly", Some(a.start.year), a.type_id)
                = KeyRows(hl_before, a.user_id, m, "yearly", Some(a.start.year), a.type_id)
            /\ KeyRows(highlights, a.user_id, m, "lifetime", NULL, a.type_id)
                = KeyRows(hl_before, a.user_id, m, "lifetime", NULL, a.type_id)

\* the rows of a get_highlights response
ResponseRows ==
    IF response = NULL THEN {}
    ELSE LET data == Val(response).data
         IN  {data[m][i] : m \in DOMAIN data, i \in 1 .. HighlightN} \cap highlights

\* C8: every YEARLY row of year Y references an activity that starts in Y, every
\* LIFETIME row has a null year, and get_highlights with a year returns only
\* YEARLY rows of that year.
C8_ScopeIsolation ==
    /\ \A h \in highlights :
          /\ h.scope = "yearly" =>
                h.year # NULL /\ ActivityById(h.activity_id).start.year = Val(h.year)
          /\ h.scope = "lifetime" => h.year = NULL
    /\ (response # NULL /\ Val(response).year # NULL) =>
          \A m \in DOMAIN Val(response).data :
              \A i \in DOMAIN Val(response).data[m] :
                  LET h == Val(response).data[m][i]
                  IN  /\ h.scope = "yearly"
                      /\ h.year = Val(response).year
                      /\ ActivityById(h.activity_id).start.year = Val(Val(response).year)

\* C8 witness: the 2023 activity (500) leads the LIFETIME board, and the response
\* for year 2024 lists the 2024 activities without it.
C8_Witness ==
    /\ \E h \in KeyRows(highlights, "u1", "distance", "lifetime", NULL, 1) :
          h.activity_id = 5 /\ h.rank = 1
    /\ response # NULL /\ Val(response).year = Some(2024)
    /\ "distance" \in DOMAIN Val(response).data
    /\ Len(Val(response).data["distance"]) >= 2
    /\ \A i \in DOMAIN Val(response).data["distance"] :
          Val(response).data["distance"][i].activity_id # 5

----------------------------------------------------------------------------
(* Calculator registry *)

RegistryMetrics == {"duration", "distance", "elevation_change_up"}

\* CalculatorResult(value, track_id)
CalculatorResult(value, track_id) == [value |-> value, track_id |-> track_id]

\* what a calculator does when called: return a CalculatorResult, return None,
\* or raise an Exception
CalculatorFuncs ==
    { [raises |-> FALSE, returns |-> Some(CalculatorResult(10, NULL))],
      [raises |-> FALSE, returns |-> Some(CalculatorResult(20, Some(1)))],
      [raises |-> FALSE, returns |-> NULL],
      [raises |-> TRUE, returns |-> NULL] }

\* dict[key] = value
SetItem(dict, key, value) ==
    [k \in DOMAIN dict \cup {key} |-> IF k = key THEN value ELSE dict[k]]

EmptyDict == [k \in {} |-> NULL]

\* self.calculators[metric] = func on an insertion-ordered dict: an existing key
\* keeps its position
add(calcs, metric, func) ==
    IF \E i \in DOMAIN calcs : calcs[i].metric = metric
    THEN [i \in DOMAIN calcs |->
            IF calcs[i].metric = metric THEN [metric |-> metric, func |-> func]
            ELSE calcs[i]]
    ELSE Append(calcs, [metric |-> metric, func |-> func])

\* the except branch of run_all dropped: the failing metric gets no entry
OnException_NoEntry(res, metric) == res

\* the except branch of run_all
OnException(res, metric) == SetItem(res, metric, NULL)

\* one iteration of the loop of run_all
RunOne(acc, entry) ==
    [results |-> IF entry.func.raises THEN OnException(acc.results, entry.metric)
                 ELSE SetItem(acc.results, entry.metric, entry.func.returns),
     invoked |-> Append(acc.invoked, entry.metric)]

RECURSIVE RunFrom(_, _, _)
RunFrom(calcs, i, acc) ==
    IF i > Len(calcs) THEN acc
    ELSE RunFrom(calcs, i + 1, RunOne(acc, calcs[i]))

run_all(calcs) == RunFrom(calcs, 1, [results |-> EmptyDict, invoked |-> <<>>])

InitRegistry ==
    /\ RegistryIdle
    /\ FnIdle
    /\ ApiIdle
    /\ TxnsIdle
    /\ HighlightsIdle
    /\ activities = {}
    /\ goal = NewGoal("manual", "count", CHOOSE t \in TemporalInputs : t.temporal_type = "yearly", NoContraints)
    /\ before = goal
    /\ clock = 1
    /\ calls = 0

\* @registry.add(metric) applied to a calculator function
Add ==
    /\ \E metric \in RegistryMetrics, func \in CalculatorFuncs :
          calculators' = add(calculators, metric, func)
    /\ results' = NULL
    /\ invoked' = <<>>
    /\ UNCHANGED <<goalVars, hlVars, fnVars, apiVars, txns>>

\* registry.run_all(activity_id, user_id, session)
RunAll ==
    /\ results' = Some(run_all(calculators).results)
    /\ invoked' = run_all(calculators).invoked
    /\ UNCHANGED <<calculators, goalVars, hlVars, fnVars, apiVars, txns>>

NextRegistry == Add \/ RunAll

SpecRegistry == InitRegistry /\ [][NextRegistry]_vars

----------------------------------------------------------------------------
(* Calculator registry: properties *)

Registered == {calculators[i].metric : i \in DOMAIN calculators}

\* C9: run_all returns a map with exactly one entry per registered metric; the
\* metric of a calculator that raises maps to None, every calculator is invoked
\* (each once, the ones after a failing one included), and every other metric
\* maps to what its calculator returned.
C9_CalculatorIsolation ==
    results # NULL =>
        /\ DOMAIN Val(results) = Registered
        /\ Len(invoked) = Len(calculators)
        /\ \A i \in DOMAIN calculators :
              /\ invoked[i] = calculators[i].metric
              /\ calculators[i].func.raises => Val(results)[calculators[i].metric] = NULL
              /\ ~calculators[i].func.raises =>
                    Val(results)[calculators[i].metric] = calculators[i].func.returns

\* C9 witness: the first of three calculators raises, the two after it returned a
\* result and None.
C9_Witness ==
    /\ results # NULL
    /\ Len(calculators) = 3
    /\ calculators[1].func.raises
    /\ Val(results)[calculators[1].metric] = NULL
    /\ \E i \in 2 .. 3 : Val(results)[calculators[i].metric] = Some(CalculatorResult(20, Some(1)))
    /\ \E i \in 2 .. 3 : ~calculators[i].func.raises /\ calculators[i].func.returns = NULL
    /\ Len(invoked) = 3

----------------------------------------------------------------------------
(* Goal engine: location goals *)

\* the stored activities whose id the geo-proximity lookup returns
LookupSet == {a \in activities : a.id \in get_activities_for_location(activities)}

\* C11: for a LOCATION goal, whatever set the geo-proximity lookup returns (the
\* empty set included), update_goal_state counts only activities of that set that
\* lie in the goal's temporal range: current grows by no more than their number.
C11_OnlyLookupActivitiesCount ==
    (goal.type = "location" /\ AfterCall) =>
        goal.current - before.current <= Unit * Cardinality(Matching \cap LookupSet)

----------------------------------------------------------------------------
(* ISO weeks: core/date_utils.py get_week_date_range and the weekly bucket *)

WeekYears == 2019 .. 2027

WeekArgs == 1 .. 53

\* the activities of the year-boundary fixture (distances 10, 15, 20 on Dec 30,
\* Dec 31 2024 and Jan 1 2025) and one activity in each neighbouring week
WeekBoundaryActivities ==
    { [id |-> 1, created_at |-> 0, user_id |-> UserId, start |-> Date(2024, 12, 30),
       distance |-> Some(10), duration |-> 1800, type_id |-> 1, sub_type_id |-> NULL,
       equipment |-> {}, near |-> FALSE],
      [id |-> 2, created_at |-> 0, user_id |-> UserId, start |-> Date(2024, 12, 31),
       distance |-> Some(15), duration |-> 1800, type_id |-> 1, sub_type_id |-> NULL,
       equipment |-> {}, near |-> FALSE],
      [id |-> 3, created_at |-> 0, user_id |-> UserId, start |-> Date(2025, 1, 1),
       distance |-> Some(20), duration |-> 1800, type_id |-> 1, sub_type_id |-> NULL,
       equipment |-> {}, near |-> FALSE],
      [id |-> 4, created_at |-> 0, user_id |-> UserId, start |-> Date(2024, 12, 29),
       distance |-> Some(40), duration |-> 1800, type_id |-> 1, sub_type_id |-> NULL,
       equipment |-> {}, near |-> FALSE],
      [id |-> 5, created_at |-> 0, user_id |-> UserId, start |-> Date(2025, 1, 6),
       distance |-> Some(80), duration |-> 1800, type_id |-> 1, sub_type_id |-> NULL,
       equipment |-> {}, near |-> FALSE] }

WeeklyGoal(year, week) ==
    NewGoal("activity", "total_distance",
            [temporal_type |-> "weekly", year |-> year, month |-> NULL, week |-> Some(week)],
            NoContraints)

InitWeek ==
    /\ goal \in {WeeklyGoal(y, w) : y \in WeekYears, w \in WeekArgs}
    /\ activities = WeekBoundaryActivities
    /\ clock = 1
    /\ before = goal
    /\ calls = 0
    /\ HighlightsIdle
    /\ RegistryIdle
    /\ FnIdle
    /\ ApiIdle
    /\ TxnsIdle

\* get_week_date_range applied to the year and the week of the goal
GetWeekDateRange ==
    /\ call = NULL
    /\ call' = Some([year |-> goal.year, week |-> Val(goal.week)])
    /\ ret' = Some(get_week_date_range(goal.year, Val(goal.week)))
    /\ UNCHANGED <<goalVars, hlVars, regVars, apiVars, txns>>

NextWeek == GetWeekDateRange \/ UpdateGoalState

SpecWeek == InitWeek /\ [][NextWeek]_vars

----------------------------------------------------------------------------
(* ISO weeks: properties.  The reference is the ISO-8601 week-number formula  *)
(* (ordinal day and weekday), not the January 4th construction.               *)

\* number of ISO weeks of a year (52 or 53)
ISOWeeksInYear(y) ==
    LET P(x) == (x + (x \div 4) - (x \div 100) + (x \div 400)) % 7
    IN  IF P(y) = 4 \/ P(y - 1) = 3 THEN 53 ELSE 52

\* the calendar year of an ordinal
YearOfOrd(d) ==
    CHOOSE y \in 2017 .. 2029 : DaysBeforeYear(y) < d /\ d <= DaysBeforeYear(y + 1)

\* ISO-8601 <<year, week>> of an ordinal
ISOYearWeek(d) ==
    LET y   == YearOfOrd(d)
        doy == d - DaysBeforeYear(y)
        w   == (doy - (Weekday(d) + 1) + 10) \div 7
    IN  IF w < 1 THEN <<y - 1, ISOWeeksInYear(y - 1)>>
        ELSE IF w > ISOWeeksInYear(y) THEN <<y + 1, 1>>
        ELSE <<y, w>>

\* C12: for every year and every week w that exists in that ISO year,
\* get_week_date_range(year, w) is a range [start, end) whose start is a Monday and
\* whose end is start + 7 days, and a date lies in it if and only if its ISO-8601
\* (year, week) is (year, w); a weekly TOTAL_DISTANCE goal sums exactly the
\* activities of its ISO week, 10 + 15 + 20 = 45 for week 1 of 2025.
C12_IsoWeekBucket ==
    /\ call # NULL /\ Val(call).week <= ISOWeeksInYear(Val(call).year) =>
          LET y == Val(call).year
              w == Val(call).week
              r == Val(ret)
          IN  /\ Weekday(r[1]) = 0
              /\ r[2] = r[1] + 7
              /\ \A d \in Ordinal(y - 1, 12, 1) .. Ordinal(y + 1, 1, 31) :
                    (r[1] <= d /\ d < r[2]) <=> ISOYearWeek(d) = <<y, w>>
    /\ (goal.temporal_type = "weekly" /\ goal.aggregation = "total_distance"
          /\ goal.constraints = NoContraints /\ AfterCall
          /\ Val(goal.week) <= ISOWeeksInYear(goal.year)) =>
          /\ goal.current =
                Unit * SumOver({a \in activities : a.user_id = UserId /\ a.distance # NULL
                                   /\ ISOYearWeek(DateOrd(a.start)) = <<goal.year, Val(goal.week)>>},
                               DistanceOf)
          /\ (goal.year = 2025 /\ Val(goal.week) = 1 /\ activities = WeekBoundaryActivities)
                => goal.current = 45 * Unit

\* C12 witness: week 1 of 2025 starts on Monday Dec 30, 2024, and the goal of that
\* week has been updated to 45.
C12_Witness ==
    /\ call = Some([year |-> 2025, week |-> 1])
    /\ ret = Some(<<Ordinal(2024, 12, 30), Ordinal(2025, 1, 6)>>)
    /\ AfterCall
    /\ goal.current = 45 * Unit
    /\ activities = WeekBoundaryActivities

----------------------------------------------------------------------------
(* Goal routes: api/routes/goal.py and crud.create_goal *)

\* route calls in one behaviour
MaxRequests == 3

GoalTypes == {"activity", "manual", "location"}

TemporalTypes == {"yearly", "monthly", "weekly"}

\* a GoalCreate request body that passed the field validation of the model
\* (current in units of 1/Unit, as in the goal engine)
GoalCreate(type, aggregation, temporal_type, month, week, c, current) ==
    [type |-> type, aggregation |-> aggregation, temporal_type |-> temporal_type,
     year |-> 2025, month |-> month, week |-> week, constraints |-> c,
     current |-> Unit * current, current_updated |-> NULL, target |-> 10,
     name |-> "goal", description |-> NULL]

CreateInputs ==
    { GoalCreate("manual", "count", "yearly", NULL, NULL, NoContraints, 0),
      GoalCreate("manual", "count", "yearly", NULL, NULL, NoContraints, 3),
      GoalCreate("manual", "avg_distance", "yearly", NULL, NULL, NoContraints, 0),
      GoalCreate("location", "duration", "yearly", NULL, NULL, GoalContraints(NULL, NULL, <<>>, Some("L")), 0),
      GoalCreate("location", "count", "yearly", NULL, NULL, GoalContraints(NULL, NULL, <<>>, Some("L")), 0),
      GoalCreate("location", "count", "yearly", NULL, NULL, NoContraints, 0),
      GoalCreate("activity", "count", "yearly", NULL, NULL, NoContraints, 0),
      GoalCreate("activity", "total_distance", "yearly", Some(5), NULL, NoContraints, 0),
      GoalCreate("activity", "count", "yearly", NULL, NULL, GoalContraints(NULL, Some(1), <<>>, NULL), 0),
      GoalCreate("activity", "count", "monthly", NULL, NULL, NoContraints, 0),
      GoalCreate("activity", "count", "weekly", NULL, Some(54), NoContraints, 0),
      GoalCreate("activity", "count", "weekly", Some(1), NULL, NoContraints, 0),
      GoalCreate("activity", "count", "weekly", Some(12), NULL, NoContraints, 0) }

\* values of the query parameter `value` of update_goal
ValueInputs == {"abc", "5", "0", "-3"}

\* float(value): the number, or nothing when float raises ValueError
ParseFloat(value) ==
    CASE value = "5"  -> Some(5)
      [] value = "0"  -> Some(0)
      [] value = "-3" -> Some(0 - 3)
      [] OTHER        -> NULL

AmountInputs == {0 - 5, 1, 5}

\* crud.create_goal: the table after the call and whether the call raised
create_goal(rows, data) ==
    IF \/ data.type = "location" /\ data.aggregation # "count"
       \/ data.type = "manual" /\ data.aggregation \notin {"count", "duration"}
    THEN [goals |-> rows, raised |-> TRUE]
    ELSE [goals |-> rows \cup {[id |-> Cardinality(rows) + 1] @@ data}, raised |-> FALSE]

\* _add_single_goal for each request of a list, in order, up to the first that raises
RECURSIVE AddEach(_, _)
AddEach(rows, datas) ==
    IF datas = <<>> THEN [goals |-> rows, raised |-> FALSE]
    ELSE LET r == create_goal(rows, Head(datas))
         IN  IF r.raised THEN r ELSE AddEach(r.goals, Tail(datas))

\* date.isocalendar()[1]
IsoWeekNumber(d) == ISOYearWeek(d)[2]

\* get_week_numbers_between_dates(start_date, end_date), dates as ordinals
RECURSIVE get_week_numbers_between_dates(_, _)
get_week_numbers_between_dates(start_date, end_date) ==
    IF start_date > end_date THEN <<>>
    ELSE LET weeks == get_week_numbers_between_dates(start_date, end_date - 1)
             week_number == IsoWeekNumber(end_date)
         IN  IF weeks = <<>> \/ weeks[Len(weeks)] # week_number
             THEN Append(weeks, week_number) ELSE weeks

\* the single-goal requests add_goal makes out of a request
Expand(data) ==
    IF data.temporal_type = "monthly" /\ data.month = NULL
    THEN [i \in 1 .. 12 |-> [data EXCEPT !.month = Some(i)]]
    ELSE IF data.temporal_type = "weekly" /\ data.week = NULL
    THEN LET week_numbers ==
                 IF data.month = NULL
                 THEN [i \in 1 .. IsoWeekNumber(Ordinal(data.year, 12, 28)) |-> i]
                 ELSE get_week_numbers_between_dates(
                          Ordinal(data.year, Val(data.month), 1),
                          Ordinal(data.year, Val(data.month), DaysInMonth(data.year, Val(data.month))))
         IN  [i \in DOMAIN week_numbers |->
                 [data EXCEPT !.month = NULL, !.week = Some(week_numbers[i])]]
    ELSE <<data>>

\* add_goal: the table and the status answered.  create_goal returns the Goal
\* itself, which matches neither Ok nor Err in _add_single_goal, so the response
\* built from its None fails the response model
add_goal(rows, data) ==
    [goals |-> AddEach(rows, Expand(data)).goals, status |-> 500]

GoalById(rows, id) == CHOOSE g \in rows : g.id = id

\* mutant: the new amount is stored as computed
Floor_None(update_amout) == update_amout

\* 0 if update_amout < 0 else update_amout
Floor(update_amout) == IF update_amout < 0 THEN 0 ELSE update_amout

\* modify_manual_goal(id, increase, amount)
modify_manual_goal(rows, id, increase, amount) ==
    IF ~\E g \in rows : g.id = id THEN [goals |-> rows, status |-> 404]
    ELSE LET g == GoalById(rows, id)
             update_amout == IF increase THEN g.current + Unit * amount
                             ELSE g.current - Unit * amount
         IN  IF g.type # "manual" THEN [goals |-> rows, status |-> 405]
             ELSE [goals |-> (rows \ {g}) \cup
                       {[g EXCEPT !.current = Floor(update_amout)]},
                   status |-> 200]

\* get_public_goal: goal.current / goal.target raises on target 0, and GoalPublic
\* rejects a target that is not positive
get_public_goal_status(g) == IF g.target <= 0 THEN 500 ELSE 200

\* update_goal(id, attribute, value)
update_goal(rows, id, attribute, value) ==
    IF attribute = "target" /\ ParseFloat(value) = NULL
    THEN [goals |-> rows, status |-> 422]
    ELSE IF ~\E g \in rows : g.id = id THEN [goals |-> rows, status |-> 404]
    ELSE LET g == GoalById(rows, id)
             new == IF attribute = "name" THEN [g EXCEPT !.name = value]
                    ELSE IF attribute = "description" THEN [g EXCEPT !.description = Some(value)]
                    ELSE [g EXCEPT !.target = Val(ParseFloat(value))]
         IN  [goals |-> (rows \ {g}) \cup {new}, status |-> get_public_goal_status(new)]

\* the goals get_goals selects
SelectGoals(rows, year, month, week) ==
    { g \in rows :
        /\ g.year = year
        /\ Truthy(month) => (g.month = month \/ g.month = NULL)
        /\ Truthy(week) => g.week = week }

\* the tables get_goals can leave: it calls update_goal_state on the selected goals
\* one after the other in the order the database returns them, and building the
\* public goal raises on the first goal whose target is not positive (division by
\* zero, or GoalPublic rejecting the target), after that goal and the ones before
\* it were updated and committed
get_goals(rows, acts, year, month, week, now) ==
    LET selected == SelectGoals(rows, year, month, week)
        zero     == {g \in selected : g.target <= 0}
        Updated(S) == (rows \ S) \cup {update_goal_state(g, acts, now) : g \in S}
    IN  IF week # NULL /\ month # NULL THEN {[goals |-> rows, status |-> 422]}
        ELSE IF zero = {} THEN {[goals |-> Updated(selected), status |-> 200]}
        ELSE {[goals |-> Updated(S \cup {z}), status |-> 500] :
                 z \in zero, S \in SUBSET (selected \ zero)}

\* ghost: the route called, its arguments and the status it answered
Reply(op, args, status) == Some([op |-> op, args |-> args, status |-> status])

InitGoalApi ==
    /\ goals = {}
    /\ reply = NULL
    /\ goals_before = {}
    /\ TxnsIdle
    /\ activities = WeekBoundaryActivities
    /\ clock = 1
    /\ goal = NewGoal("manual", "count", CHOOSE t \in TemporalInputs : t.temporal_type = "yearly", NoContraints)
    /\ before = goal
    /\ calls = 0
    /\ HighlightsIdle
    /\ RegistryIdle
    /\ FnIdle

ApiFrame == UNCHANGED <<goal, activities, before, calls, hlVars, regVars, fnVars, txns>>

\* PUT /goal
AddGoal ==
    /\ clock <= MaxRequests
    /\ \E data \in CreateInputs :
          /\ goals' = add_goal(goals, data).goals
          /\ reply' = Reply("add_goal", data, add_goal(goals, data).status)
    /\ goals_before' = goals
    /\ clock' = clock + 1
    /\ ApiFrame

\* GET /goal/{id}/modify_amount
ModifyManualGoal ==
    /\ clock <= MaxRequests
    /\ \E id \in {g.id : g \in goals} \cup {0}, increase \in BOOLEAN, amount \in AmountInputs :
          /\ goals' = modify_manual_goal(goals, id, increase, amount).goals
          /\ reply' = Reply("modify_manual_goal", [id |-> id, increase |-> increase, amount |-> amount],
                          modify_manual_goal(goals, id, increase, amount).status)
    /\ goals_before' = goals
    /\ clock' = clock + 1
    /\ ApiFrame

\* POST /goal/{id}/update
UpdateGoal ==
    /\ clock <= MaxRequests
    /\ \E id \in {g.id : g \in goals} \cup {0}, attribute \in {"name", "description", "target"}, value \in ValueInputs :
          /\ goals' = update_goal(goals, id, attribute, value).goals
          /\ reply' = Reply("update_goal", [id |-> id, attribute |-> attribute, value |-> value],
                          update_goal(goals, id, attribute, value).status)
    /\ goals_before' = goals
    /\ clock' = clock + 1
    /\ ApiFrame

\* GET /goal
GetGoals ==
    /\ clock <= MaxRequests
    /\ \E month \in {NULL, Some(1)}, week \in {NULL, Some(1)} :
          \E r \in get_goals(goals, activities, 2025, month, week, clock) :
              /\ goals' = r.goals
              /\ reply' = Reply("get_goals", [month |-> month, week |-> week], r.status)
    /\ goals_before' = goals
    /\ clock' = clock + 1
    /\ ApiFrame

NextGoalApi == AddGoal \/ ModifyManualGoal \/ UpdateGoal \/ GetGoals

SpecGoalApi == InitGoalApi /\ [][NextGoalApi]_vars

----------------------------------------------------------------------------
(* Goal routes: properties *)

\* C13: after any sequence of goal creation requests, every stored goal satisfies
\* the type x aggregation table and the temporal-field table (YEARLY: no month and
\* no week; MONTHLY: month set, no week; WEEKLY: week in 1..53, no month) and has
\* well-formed constraints: a definition that fails validation is not stored.
C13_StoredGoalsValid ==
    \A g \in goals :
        /\ g.type = "location" => g.aggregation = "count"
        /\ g.type = "manual" => g.aggregation \in {"count", "duration"}
        /\ g.temporal_type = "yearly" => (g.month = NULL /\ g.week = NULL)
        /\ g.temporal_type = "monthly" => (g.month # NULL /\ g.week = NULL)
        /\ g.temporal_type = "weekly" =>
              (g.week # NULL /\ Val(g.week) \in 1 .. 53 /\ g.month = NULL)
        /\ validate_constraints(g.type, g.constraints)

\* the last route call was op and answered 200
Answered(op) == reply # NULL /\ Val(reply).op = op /\ Val(reply).status = 200

\* C14: for a MANUAL goal, current is never negative after modify_manual_goal calls
\* with any integer amounts; a call sets current to max(0, current + amount) when
\* increase is true and to max(0, current - amount) otherwise.
C14_ManualGoalFloor ==
    /\ \A g \in goals : g.type = "manual" => g.current >= 0
    /\ Answered("modify_manual_goal") =>
          LET a   == Val(reply).args
              old == GoalById(goals_before, a.id)
              new == GoalById(goals, a.id)
          IN  /\ old.type = "manual"
              /\ a.increase => new.current = Max(0, old.current + Unit * a.amount)
              /\ ~a.increase => new.current = Max(0, old.current - Unit * a.amount)

\* C14 witness: a manual goal with current = 3 decreased by 5 is at 0.
C14_Witness ==
    /\ Answered("modify_manual_goal")
    /\ ~Val(reply).args.increase /\ Val(reply).args.amount = 5
    /\ GoalById(goals_before, Val(reply).args.id).current = Unit * 3
    /\ GoalById(goals, Val(reply).args.id).current = 0

----------------------------------------------------------------------------
(* Goal validation: goal.py validators applied to request data *)

\* mutant: the range of week is not checked
validate_temporal_setup_NoRange(temporal_type, month, week) ==
    CASE temporal_type = "yearly"  -> month = NULL /\ week = NULL
      [] temporal_type = "monthly" -> month # NULL /\ week = NULL
      [] temporal_type = "weekly"  -> week # NULL /\ month = NULL

\* _validate_temporal_setup: TRUE when it returns None
validate_temporal_setup(temporal_type, month, week) ==
    CASE temporal_type = "yearly" ->
             ~(month # NULL) /\ ~(week # NULL)
      [] temporal_type = "monthly" ->
             ~(month = NULL) /\ ~(week # NULL)
      [] temporal_type = "weekly" ->
             ~(week = NULL) /\ ~(month # NULL) /\ ~(Val(week) < 1 \/ Val(week) > 53)

MonthFieldInputs == {NULL, Some(0), Some(1), Some(12), Some(13)}

WeekFieldInputs == {NULL, Some(0 - 1), Some(0), Some(1), Some(53), Some(54)}

\* constraints objects in the format GoalContraints accepts
ContraintFieldInputs ==
    { GoalContraints(t, st, eq, loc) :
        t \in {NULL, Some(0), Some(1), Some(2), Some(9)},
        st \in {NULL, Some(1), Some(9)},
        eq \in {<<>>, <<"A">>, <<"A", "A">>, <<"X">>},
        loc \in {NULL, Some("L"), Some("X")} }

InitValidation ==
    /\ FnIdle
    /\ ApiIdle
    /\ TxnsIdle
    /\ HighlightsIdle
    /\ RegistryIdle
    /\ activities = {}
    /\ goal = NewGoal("manual", "count", CHOOSE t \in TemporalInputs : t.temporal_type = "yearly", NoContraints)
    /\ before = goal
    /\ clock = 1
    /\ calls = 0

ValidationFrame == UNCHANGED <<goalVars, hlVars, regVars, apiVars, txns>>

\* _validate_type_aggregation_combination(goal)
ValidateTypeAggregation ==
    /\ \E type \in GoalTypes, aggregation \in Aggregations :
          /\ call' = Some([fn |-> "validate_type_aggregation_combination",
                           type |-> type, aggregation |-> aggregation])
          /\ ret' = Some(validate_type_aggregation_combination(type, aggregation))
    /\ ValidationFrame

\* _validate_temporal_setup(goal)
ValidateTemporalSetup ==
    /\ \E temporal_type \in TemporalTypes, month \in MonthFieldInputs, week \in WeekFieldInputs :
          /\ call' = Some([fn |-> "validate_temporal_setup", temporal_type |-> temporal_type,
                           month |-> month, week |-> week])
          /\ ret' = Some(validate_temporal_setup(temporal_type, month, week))
    /\ ValidationFrame

\* validate_constraints(session, goal_type, constraints)
ValidateConstraints ==
    /\ \E goal_type \in GoalTypes, c \in ContraintFieldInputs :
          /\ call' = Some([fn |-> "validate_constraints", goal_type |-> goal_type,
                           constraints |-> c])
          /\ ret' = Some(validate_constraints(goal_type, c))
    /\ ValidationFrame

NextValidation == ValidateTypeAggregation \/ ValidateTemporalSetup \/ ValidateConstraints

SpecValidation == InitValidation /\ [][NextValidation]_vars

----------------------------------------------------------------------------
(* Goal validation: properties *)

Applied(fn) == call # NULL /\ Val(call).fn = fn

AllowedPairs ==
    {<<"location", "count">>, <<"manual", "count">>, <<"manual", "duration">>}
    \cup {<<"activity", a>> : a \in Aggregations}

RejectedPairs ==
    { p \in GoalTypes \X Aggregations :
        ~validate_type_aggregation_combination(p[1], p[2]) }

\* C15 as stated: no error exactly for (LOCATION, COUNT), (MANUAL, COUNT),
\* (MANUAL, DURATION) and (ACTIVITY, any aggregation), and a validation error for
\* each of the other eight pairs.
C15_TableWithEightOthers ==
    /\ Applied("validate_type_aggregation_combination") =>
          (Val(ret) <=> <<Val(call).type, Val(call).aggregation>> \in AllowedPairs)
    /\ Cardinality(RejectedPairs) = 8

\* C15 amended: _validate_type_aggregation_combination returns no error exactly for
\* (LOCATION, COUNT), (MANUAL, COUNT), (MANUAL, DURATION) and (ACTIVITY, any of the
\* five aggregations), and a validation error for each of the other seven pairs.
C15_TypeAggregationTable ==
    /\ Applied("validate_type_aggregation_combination") =>
          (Val(ret) <=> <<Val(call).type, Val(call).aggregation>> \in AllowedPairs)
    /\ Cardinality(RejectedPairs) = 7
    /\ Cardinality(AllowedPairs) = 8

\* C15 witness: (MANUAL, AVG_DISTANCE) has been rejected.
C15_Witness ==
    /\ Applied("validate_type_aggregation_combination")
    /\ Val(call).type = "manual" /\ Val(call).aggregation = "avg_distance"
    /\ ~Val(ret)

\* C16: _validate_temporal_setup returns no error if and only if YEARLY with month
\* and week unset, or MONTHLY with month set and week unset, or WEEKLY with week
\* set, 1 <= week <= 53 and month unset.
C16_TemporalFieldTable ==
    Applied("validate_temporal_setup") =>
        LET c == Val(call)
        IN  Val(ret) <=>
               \/ c.temporal_type = "yearly" /\ c.month = NULL /\ c.week = NULL
               \/ c.temporal_type = "monthly" /\ c.month # NULL /\ c.week = NULL
               \/ /\ c.temporal_type = "weekly" /\ c.week # NULL /\ c.month = NULL
                  /\ 1 <= Val(c.week) /\ Val(c.week) <= 53

\* C16 witness: a WEEKLY setup with week 54 and no month has been rejected.
C16_Witness ==
    /\ Applied("validate_temporal_setup")
    /\ Val(call).temporal_type = "weekly" /\ Val(call).week = Some(54)
    /\ Val(call).month = NULL
    /\ ~Val(ret)

\* C17: validate_constraints fails whenever location_id is set and the goal type is
\* not LOCATION, and whenever the goal type is LOCATION and location_id is not set;
\* for a LOCATION goal with the id of an existing location and no other constraint
\* it returns the constraints object.
C17_LocationConstraint ==
    Applied("validate_constraints") =>
        LET c == Val(call).constraints
            t == Val(call).goal_type
        IN  /\ (c.location_id # NULL /\ t # "location") => ~Val(ret)
            /\ (t = "location" /\ c.location_id = NULL) => ~Val(ret)
            /\ (t = "location" /\ c = GoalContraints(NULL, NULL, <<>>, Some("L"))) => Val(ret)

\* C17 witness: an ACTIVITY goal with the id of an existing location and no other
\* constraint has been rejected.
C17_Witness ==
    /\ Applied("validate_constraints")
    /\ Val(call).goal_type = "activity"
    /\ Val(call).constraints = GoalContraints(NULL, NULL, <<>>, Some("L"))
    /\ ~Val(ret)

----------------------------------------------------------------------------
(* Highlight task: tasks.py process_activity_highlights *)

\* mutant: every metric is written, a missing result as value 0, through a call
\* update_top_n_highlights accepts
TaskWrite_Unguarded(rows, user_id, activity, metric, result) ==
    [rows |-> update_top_n_highlights(rows, user_id, activity, metric,
                                      IF result = NULL THEN 0 ELSE Val(result).value,
                                      HighlightN),
     raised |-> FALSE]

\* the body of the loop of process_activity_highlights for one metric: the call
\* passes track_id=, a keyword update_top_n_highlights does not take, so it raises
\* TypeError before the function runs and the commit is not reached
TaskWrite(rows, user_id, activity, metric, result) ==
    IF result # NULL THEN [rows |-> rows, raised |-> TRUE]
    ELSE [rows |-> rows, raised |-> FALSE]

\* the loop over registry.run_all(...).items(), in the order of the dict, up to the
\* first iteration that raises
RECURSIVE TaskLoop(_, _, _, _, _, _)
TaskLoop(rows, user_id, activity, order, res, i) ==
    IF i > Len(order) THEN [rows |-> rows, raised |-> FALSE]
    ELSE LET w == TaskWrite(rows, user_id, activity, order[i], res[order[i]])
         IN  IF w.raised THEN w
             ELSE TaskLoop(w.rows, user_id, activity, order, res, i + 1)

\* process_activity_highlights(activity_id, user_id): the table after the task and
\* how the task ended
process_activity_highlights(rows, acts, calcs, activity_id, user_id) ==
    IF ~\E a \in acts : a.id = activity_id THEN [rows |-> rows, ended |-> "not_found"]
    ELSE LET activity == CHOOSE a \in acts : a.id = activity_id
             run == run_all(calcs)
             out == TaskLoop(rows, user_id, activity, run.invoked, run.results, 1)
         IN  IF activity.user_id # user_id THEN [rows |-> rows, ended |-> "wrong_user"]
             ELSE [rows |-> out.rows, ended |-> IF out.raised THEN "raised" ELSE "done"]

InitTask ==
    /\ RegistryIdle
    /\ FnIdle
    /\ ApiIdle
    /\ TxnsIdle
    /\ HighlightsIdle
    /\ activities = HighlightActivityInputs
    /\ goal = NewGoal("manual", "count", CHOOSE t \in TemporalInputs : t.temporal_type = "yearly", NoContraints)
    /\ before = goal
    /\ clock = 1
    /\ calls = 0

\* the celery task runs for an activity id and a user id
ProcessActivityHighlights ==
    /\ \E activity_id \in {a.id : a \in activities} \cup {0}, user_id \in {"u1", "u2"} :
          LET t == process_activity_highlights(highlights, activities, calculators, activity_id, user_id)
          IN  /\ highlights' = t.rows
              /\ call' = Some([fn |-> "process_activity_highlights",
                               activity_id |-> activity_id, user_id |-> user_id])
              /\ ret' = Some(t.ended)
              /\ results' = IF t.ended \in {"done", "raised"}
                            THEN Some(run_all(calculators).results) ELSE NULL
              /\ invoked' = IF t.ended \in {"done", "raised"}
                            THEN run_all(calculators).invoked ELSE <<>>
    /\ hl_before' = highlights
    /\ UNCHANGED <<calculators, response, called, last_call, repeat, goalVars, apiVars, txns>>

NextTask == Add \/ ProcessActivityHighlights

SpecTask == InitTask /\ [][NextTask]_vars

----------------------------------------------------------------------------
(* Highlight task: properties *)

\* the task ran its loop for the activity it was called for, and no calculator
\* was registered since
TaskRan ==
    /\ call # NULL /\ Val(call).fn = "process_activity_highlights"
    /\ Val(ret) \in {"done", "raised"}
    /\ results # NULL

C19_TargetPositive == \A g \in goals : g.target > 0

\* the goal with this id before and after the last route call, when it is in both
Kept == {g.id : g \in goals} \cap {g.id : g \in goals_before}

\* C20: current and current_updated of an ACTIVITY or LOCATION goal change only
\* through update_goal_state (the read path get_goals), current of a MANUAL goal
\* only through modify_manual_goal: modify_manual_goal on a non-MANUAL goal answers
\* 405 and changes nothing, update_goal_state leaves a MANUAL goal as it is, and
\* update_goal changes neither current nor current_updated.
C20_ProgressWriters ==
    reply # NULL =>
        LET op == Val(reply).op
        IN  /\ \A id \in Kept :
                  LET old == GoalById(goals_before, id)
                      new == GoalById(goals, id)
                  IN  /\ (old.type # "manual" /\ op # "get_goals") =>
                            (new.current = old.current
                               /\ new.current_updated = old.current_updated)
                      /\ (old.type = "manual" /\ op # "modify_manual_goal") =>
                            new.current = old.current
                      /\ (old.type = "manual" /\ op = "get_goals") => new = old
                      /\ op = "update_goal" =>
                            (new.current = old.current
                               /\ new.current_updated = old.current_updated)
            /\ (op = "modify_manual_goal"
                  /\ \E g \in goals_before :
                        g.id = Val(reply).args.id /\ g.type # "manual") =>
                  (Val(reply).status = 405 /\ goals = goals_before)

\* C20 witness: the read path has just updated an activity goal and left the manual
\* goal stored beside it as it was.
C20_Witness ==
    /\ reply # NULL /\ Val(reply).op = "get_goals" /\ Val(reply).status = 200
    /\ \E g \in goals : g.type = "manual" /\ g \in goals_before
    /\ \E id \in Kept :
          /\ GoalById(goals, id).type = "activity"
          /\ GoalById(goals, id).current > GoalById(goals_before, id).current
          /\ GoalById(goals, id).current_updated # NULL

----------------------------------------------------------------------------
(* Goal engine: the empty candidate set *)

\* the last update_goal_state call found no candidate
FoundNothing == AfterCall /\ FoundActivities(before, activities) = {}

\* C21: when the candidate set of update_goal_state is empty, the goal is returned
\* with current and current_updated unchanged (a null cursor stays null, a set
\* cursor keeps its value), so an activity inserted afterwards is still found: a
\* COUNT goal counts every matching activity after the next call.
C21_EmptySetLeavesGoal ==
    /\ FoundNothing => goal = before
    /\ (goal.type = "activity" /\ goal.aggregation = "count" /\ AfterCall) =>
          /\ goal.current = Unit * Cardinality(Matching)
          /\ \A a \in Matching :
                goal.current_updated # NULL /\ a.created_at < Val(goal.current_updated)

\* C21 witness: the second of two calls in a row found nothing and kept the cursor
\* the first one had set.
C21_Witness ==
    /\ FoundNothing
    /\ before.current_updated # NULL
    /\ goal.current_updated = before.current_updated
    /\ goal.type = "activity" /\ goal.aggregation = "count"
    /\ calls = 2


----------------------------------------------------------------------------
(* Highlight leaderboard: two updates in progress at once.  Each update runs in
   a session of its own (tasks.py opens one per task); the rows it deletes and
   adds reach the table when it commits, and its own reads see them before. *)

HighlightWorkers == {1, 2}

\* the two tables the concurrent updates start from: empty, and the board
\* two earlier updates left
RaceBoards ==
    { {},
      update_top_n_highlights(update_top_n_highlights({}, "u1", Act(3, "u1", Date(2024, 1, 3), 1, 20, 1800), "distance", 20, HighlightN), "u1", Act(1, "u1", Date(2024, 1, 1), 1, 50, 3600), "distance", 50, HighlightN) }

\* the activities of the concurrent updates: one user, one type
RaceActivities == {a \in HighlightActivityInputs : a.user_id = "u1" /\ a.type_id = 1 /\ a.id \in {2, 4, 5}}

\* a session that has not begun its update
NoUpdate == [pc |-> "idle", activity |-> NULL, metric |-> NULL, scope |-> NULL,
             current_highlights |-> {}, deleted |-> {}, added |-> {}]

\* the rows a session's statements see: the committed table with its own
\* deletes and its own flushed inserts
SessionView(rows, t) == (rows \ t.deleted) \cup t.added

\* the fields of the unique constraint uix_highlight_rank
UniqueKey(h) == <<h.user_id, h.metric, h.scope, h.year, h.rank, h.type_id>>

\* uix_highlight_rank holds of the rows; rows with a NULL year never conflict
UniqueRanks(rows) ==
    \A h1 \in rows, h2 \in rows :
        (h1 # h2 /\ h1.year # NULL /\ UniqueKey(h1) = UniqueKey(h2)) => FALSE

InitHighlightRace ==
    /\ activities = HighlightActivityInputs
    /\ highlights \in RaceBoards
    /\ response = NULL
    /\ hl_before = highlights
    /\ called = [k \in CallKeys |-> 0]
    /\ last_call = NULL
    /\ repeat = FALSE
    /\ goal = NewGoal("manual", "count", CHOOSE t \in TemporalInputs : t.temporal_type = "yearly", NoContraints)
    /\ before = goal
    /\ clock = 1
    /\ calls = 0
    /\ RegistryIdle
    /\ FnIdle
    /\ ApiIdle
    /\ txns = [w \in HighlightWorkers |-> NoUpdate]

RaceFrame == UNCHANGED <<goalVars, response, hl_before, called, last_call, repeat, regVars, fnVars, apiVars>>

\* a worker begins update_top_n_highlights for an activity no other worker
\* has taken, with the metric "distance"
BeginUpdate(w) ==
    /\ txns[w].pc = "idle"
    /\ \E a \in RaceActivities :
          /\ \A v \in HighlightWorkers : txns[v].activity # Some(a)
          /\ txns' = [txns EXCEPT ![w] = [NoUpdate EXCEPT !.pc = "select", !.activity = Some(a), !.metric = Some("distance"), !.scope = Some("yearly")]]
    /\ UNCHANGED highlights
    /\ RaceFrame

\* step 1 of a pass: current_highlights = session.exec(stmt).all()
SelectCurrent(w) ==
    /\ txns[w].pc = "select"
    /\ LET t == txns[w]
           a == Val(t.activity)
       IN  txns' = [txns EXCEPT ![w] = [t EXCEPT !.pc = "replace", !.current_highlights = KeyRows(SessionView(highlights, t), a.user_id, Val(t.metric), Val(t.scope), YearOf(Val(t.scope), a), a.type_id)]]
    /\ UNCHANGED highlights
    /\ RaceFrame

\* steps 2 to 5 of a pass, from the rows step 1 read: the candidate is ranked,
\* and when it made the cut the DELETE runs against the rows visible now and
\* the new top N is added to the session
ReplaceKey(w) ==
    /\ txns[w].pc = "replace"
    /\ LET t      == txns[w]
           a      == Val(t.activity)
           m      == Val(t.metric)
           scope  == Val(t.scope)
           year   == YearOf(scope, a)
           passed == UpdateScope(t.current_highlights, a.user_id, a, m, ValueOf(a, m), HighlightN, scope)
           made   == passed # t.current_highlights
           gone   == KeyRows(SessionView(highlights, t), a.user_id, m, scope, year, a.type_id)
           next   == IF scope = "yearly"
                     THEN [t EXCEPT !.pc = "select", !.scope = Some("lifetime"), !.current_highlights = {}]
                     ELSE [t EXCEPT !.pc = "commit", !.current_highlights = {}]
       IN  txns' = [txns EXCEPT ![w] =
                       IF made
                       THEN [next EXCEPT !.deleted = (t.deleted \cup gone) \cap highlights,
                                         !.added = (t.added \ gone) \cup passed]
                       ELSE next]
    /\ UNCHANGED highlights
    /\ RaceFrame

\* session.commit() of the caller: the session's deletes and inserts reach the
\* table, unless an inserted row breaks uix_highlight_rank: the commit raises
\* and the session's changes are rolled back
CommitUpdate(w) ==
    /\ txns[w].pc = "commit"
    /\ LET t     == txns[w]
           after == SessionView(highlights, t)
       IN  IF UniqueRanks(after)
           THEN /\ highlights' = after
                /\ txns' = [txns EXCEPT ![w] = [t EXCEPT !.pc = "done"]]
           ELSE /\ highlights' = highlights
                /\ txns' = [txns EXCEPT ![w] = [t EXCEPT !.pc = "failed"]]
    /\ RaceFrame

NextHighlightRace ==
    \E w \in HighlightWorkers :
        \/ BeginUpdate(w)
        \/ SelectCurrent(w)
        \/ ReplaceKey(w)
        \/ CommitUpdate(w)

SpecHighlightRace == InitHighlightRace /\ [][NextHighlightRace]_vars

\* both workers ran an update to its end
BothUpdatesEnded == \A w \in HighlightWorkers : txns[w].pc \in {"done", "failed"}

\* the table after the update for a ran on rows, alone
AloneUpdate(rows, a) == update_top_n_highlights(rows, a.user_id, a, "distance", ValueOf(a, "distance"), HighlightN)

\* C22: after two updates for different activities of one user, metric and type
\* ran concurrently, the table is the one the two updates leave when they run one
\* after the other, in one of the two orders.
C22_UpdatesSerialized ==
    BothUpdatesEnded =>
        LET a1 == Val(txns[1].activity)
            a2 == Val(txns[2].activity)
        IN  \/ highlights = AloneUpdate(AloneUpdate(hl_before, a1), a2)
            \/ highlights = AloneUpdate(AloneUpdate(hl_before, a2), a1)


----------------------------------------------------------------------------
(* Goal engine: update_goal_state calls in progress at once.  Each request has a
   session of its own: it loads the goal row, runs the activity query with the
   cursor it loaded, and then stamps and commits.  Insertions and the steps of
   the other request fall between those steps. *)

GoalRequests == {1, 2}

\* update_goal_state calls one request slot makes in one behaviour
MaxRuns == 2

\* the goals the concurrent calls recompute: ACTIVITY goals of the folding
\* aggregations, yearly, without constraints
RaceGoals ==
    { g \in GoalInputs :
        /\ g.type = "activity"
        /\ g.aggregation \in {"count", "duration", "total_distance"}
        /\ g.temporal_type = "yearly"
        /\ g.constraints = NoContraints }

\* a request slot that has not loaded a goal
NoRequest == [pc |-> "idle", goal |-> NULL, found |-> {}, loaded_at |-> 0,
              runs |-> 0, wrote |-> FALSE]

InitGoalRace ==
    /\ goal \in RaceGoals
    /\ activities = {}
    /\ clock = 1
    /\ before = goal
    /\ calls = 0
    /\ HighlightsIdle
    /\ RegistryIdle
    /\ FnIdle
    /\ ApiIdle
    /\ txns = [r \in GoalRequests |-> NoRequest]

GoalRaceFrame == UNCHANGED <<activities, before, calls, hlVars, regVars, fnVars, apiVars>>

\* _data = session.exec(stmt).all(): the request's session loads the goal row,
\* current and current_updated in one SELECT
LoadGoal(r) ==
    /\ txns[r].pc \in {"idle", "done"}
    /\ txns[r].runs < MaxRuns
    /\ txns' = [txns EXCEPT ![r] = [pc |-> "query", goal |-> Some(goal), found |-> {},
                                    loaded_at |-> clock, runs |-> txns[r].runs + 1,
                                    wrote |-> FALSE]]
    /\ UNCHANGED <<goal, clock>>
    /\ GoalRaceFrame

\* activities = session.exec(stmt).all() with the cursor of the loaded goal; an
\* empty result returns the goal at once
QueryActivities(r) ==
    /\ txns[r].pc = "query"
    /\ LET found == FoundActivities(Val(txns[r].goal), activities)
       IN  txns' = [txns EXCEPT ![r] = [@ EXCEPT !.found = found,
                                                 !.pc = IF found = {} THEN "done" ELSE "write"]]
    /\ UNCHANGED <<goal, clock>>
    /\ GoalRaceFrame

\* mutant: the UPDATE adds the delta to the stored current
WriteBack_Relative(stored, loaded, found, now) ==
    [stored EXCEPT !.current = stored.current + (NewCurrent(loaded, found) - loaded.current), !.current_updated = Some(now)]

\* the row after the session's commit: the UPDATE sets current_updated, and
\* sets current to the value computed from the loaded row when that differs from
\* the loaded value (the ORM writes the attributes that changed, as values)
WriteBack(stored, loaded, found, now) ==
    [stored EXCEPT !.current = IF NewCurrent(loaded, found) # loaded.current THEN NewCurrent(loaded, found) ELSE stored.current, !.current_updated = Some(now)]

\* goal.current is set from the activities found, goal.current_updated =
\* datetime.now(), session.commit()
StampAndCommit(r) ==
    /\ txns[r].pc = "write"
    /\ clock <= MaxOps
    /\ goal' = WriteBack(goal, Val(txns[r].goal), txns[r].found, clock)
    /\ clock' = clock + 1
    /\ txns' = [txns EXCEPT ![r] = [@ EXCEPT !.pc = "done", !.wrote = TRUE]]
    /\ GoalRaceFrame

\* the activities inserted while calls are in progress: the two of ActivityInputs
\* that start in 2025 and belong to the goals' user and to type 1
RaceActivityInputs ==
    { t \in ActivityInputs :
        t.user_id = UserId /\ t.start.year = 2025 /\ t.type_id = 1 }

\* a request stores a new activity while calls may be in progress:
\* created_at = datetime.now()
InsertDuringCalls ==
    /\ clock <= MaxOps
    /\ \E t \in RaceActivityInputs :
          activities' = activities \cup
              {[id |-> clock, created_at |-> clock, user_id |-> t.user_id,
                start |-> t.start, distance |-> t.distance, duration |-> t.duration,
                type_id |-> t.type_id, sub_type_id |-> t.sub_type_id,
                equipment |-> t.equipment, near |-> t.near]}
    /\ clock' = clock + 1
    /\ UNCHANGED <<goal, before, calls, hlVars, regVars, fnVars, apiVars, txns>>

NextGoalRace ==
    \/ InsertDuringCalls
    \/ \E r \in GoalRequests :
          \/ LoadGoal(r)
          \/ QueryActivities(r)
          \/ StampAndCommit(r)

SpecGoalRace == InitGoalRace /\ [][NextGoalRace]_vars

\* the aggregate of the goal over every matching activity stored, in units of
\* 1/Unit
TrueAggregate ==
    CASE goal.aggregation = "count" -> Unit * Cardinality(Matching)
      [] goal.aggregation = "duration" -> Unit * SumOver(Matching, DurationOf)
      [] goal.aggregation = "total_distance" ->
             Unit * SumOver(MatchingWithDistance, DistanceOf)

\* both requests ran once, loaded the same cursor, found a common activity and
\* committed
BothFoldedTheSame ==
    /\ \A r \in GoalRequests : txns[r].pc = "done" /\ txns[r].runs = 1 /\ txns[r].wrote
    /\ Val(txns[1].goal).current_updated = Val(txns[2].goal).current_updated
    /\ txns[1].found \cap txns[2].found # {}

C24_InsertedDuringCallIsFolded ==
    ( /\ txns[2].runs = 0
      /\ txns[1].pc = "done"
      /\ \A a \in activities : a.created_at < txns[1].loaded_at ) =>
        goal.current = TrueAggregate


----------------------------------------------------------------------------
(* Goal engine: update_goal_state calls that fail *)

\* the goals of the failing calls: two ACTIVITY goals, a LOCATION goal, and a
\* LOCATION goal with an aggregation update_goal_state does not implement (the
\* goals table accepts the row; create_goal does not make one)
FailureGoals ==
    LET yearly == CHOOSE t \in TemporalInputs : t.temporal_type = "yearly"
        atL    == GoalContraints(NULL, NULL, <<>>, Some("L"))
    IN  { NewGoal("activity", "count", yearly, NoContraints),
          NewGoal("activity", "max_distance", yearly, NoContraints),
          NewGoal("location", "count", yearly, atL),
          NewGoal("location", "duration", yearly, atL) }

\* mutant: a commit that fails leaves the new values in the row
OnCommitFailure_Stored(g, new) == new

\* session.commit() raises: the transaction is rolled back, the row stays as it
\* was
OnCommitFailure(g, new) == g

\* update_goal_state(session, user_id, goal) with datetime.now() = now, in a
\* session whose commit succeeds or not: the row as stored when the call ends,
\* and whether the call raised
try_update_goal_state(g, acts, now, commit_ok) ==
    IF g.type = "manual" THEN [stored |-> g, raised |-> FALSE]
    ELSE LET found == FoundActivities(g, acts)
         IN  IF found = {} THEN [stored |-> g, raised |-> FALSE]
             ELSE IF g.type = "location" /\ g.aggregation # "count"
                  THEN [stored |-> g, raised |-> TRUE]
                  ELSE IF commit_ok
                       THEN [stored |-> update_goal_state(g, acts, now), raised |-> FALSE]
                       ELSE [stored |-> OnCommitFailure(g, update_goal_state(g, acts, now)), raised |-> TRUE]

InitGoalFailure ==
    /\ goal \in FailureGoals
    /\ activities = {}
    /\ clock = 1
    /\ before = goal
    /\ calls = 0
    /\ HighlightsIdle
    /\ RegistryIdle
    /\ FnIdle
    /\ ApiIdle
    /\ TxnsIdle

\* a goal read path calls update_goal_state(goal); the commit may fail
TryUpdateGoalState ==
    /\ clock <= MaxOps
    /\ \E commit_ok \in BOOLEAN :
          LET out == try_update_goal_state(goal, activities, clock, commit_ok)
          IN  /\ goal' = out.stored
              /\ call' = Some([fn |-> "update_goal_state", commit_ok |-> commit_ok])
              /\ ret' = Some(out.raised)
    /\ before' = goal
    /\ calls' = IF calls < 2 THEN calls + 1 ELSE 2
    /\ clock' = clock + 1
    /\ UNCHANGED <<activities, hlVars, regVars, apiVars, txns>>

NextGoalFailure == InsertActivity \/ TryUpdateGoalState

SpecGoalFailure == InitGoalFailure /\ [][NextGoalFailure]_vars

\* the last operation was an update_goal_state call that raised
CallRaised == AfterCall /\ Applied("update_goal_state") /\ Val(ret)

\* C25: when update_goal_state fails, on an aggregation it does not implement or
\* on a commit that fails, the call raises and the stored current and
\* current_updated are what they were before the call.
C25_FailedCallKeepsCursor ==
    /\ CallRaised =>
          /\ goal.current = before.current
          /\ goal.current_updated = before.current_updated
    /\ (AfterCall /\ Applied("update_goal_state") /\ FoundActivities(before, activities) # {}) =>
          /\ (before.type = "location" /\ before.aggregation # "count") => Val(ret)
          /\ ~Val(call).commit_ok => Val(ret)

\* C25 witness: a call on a goal with a cursor found new activities, its commit
\* failed, and the row kept the cursor.
C25_Witness ==
    /\ CallRaised
    /\ ~Val(call).commit_ok
    /\ before.type = "activity" /\ before.aggregation = "count"
    /\ before.current_updated # NULL
    /\ FoundActivities(before, activities) # {}
    /\ goal = before


----------------------------------------------------------------------------
(* Highlight task: a write that fails, and the track_id of a result *)

\* the metrics whose calculator returned a result in the task that ran
WithResult == {m \in DOMAIN Val(results) : Val(results)[m] # NULL}

\* the metric of the first iteration of the task's loop that raised
FailingMetric ==
    LET k == CHOOSE i \in DOMAIN invoked :
                 /\ invoked[i] \in WithResult
                 /\ \A j \in 1 .. (i - 1) : invoked[j] \notin WithResult
    IN  invoked[k]

\* the table after update_top_n_highlights ran for metric m of the task's
\* activity on the rows from before the task, alone
AloneWrite(m) ==
    update_top_n_highlights(hl_before, Val(call).user_id, ActivityById(Val(call).activity_id), m, Val(Val(results)[m]).value, HighlightN)

\* C26: when the leaderboard write of one metric fails in the task, the rows of
\* every other metric with a result are, after the task, the rows
\* update_top_n_highlights leaves for that metric when the failing metric is not
\* processed.
C26_WriteFailureIsolated ==
    (TaskRan /\ Val(ret) = "raised") =>
        \A m \in WithResult \ {FailingMetric} :
            {h \in highlights : h.metric = m} = {h \in AloneWrite(m) : h.metric = m}

\* C27: when a calculator returned a result with a track_id and the activity
\* enters the top N, the task ends normally and the YEARLY and the LIFETIME row
\* of the activity for that metric carry the track_id.
C27_TrackIdCarried ==
    TaskRan =>
        \A m \in WithResult :
            ( /\ Val(Val(results)[m]).track_id # NULL
              /\ \E h \in AloneWrite(m) :
                    h.metric = m /\ h.activity_id = Val(call).activity_id ) =>
                /\ Val(ret) = "done"
                /\ \A scope \in {"yearly", "lifetime"} :
                      \E h \in highlights :
                          /\ h.metric = m
                          /\ h.activity_id = Val(call).activity_id
                          /\ h.scope = scope
                          /\ h.track_id = Val(Val(results)[m]).track_id


----------------------------------------------------------------------------
(* Highlight leaderboard: what an update leaves alone *)

\* row h belongs to the YEARLY or to the LIFETIME key of activity a and metric m
InKeysOf(h, a, m) ==
    /\ h.user_id = a.user_id
    /\ h.metric = m
    /\ h.type_id = a.type_id
    /\ \/ h.scope = "yearly" /\ h.year = Some(a.start.year)
       \/ h.scope = "lifetime" /\ h.year = NULL

\* the rows of one scope of the keys of activity a and metric m
ScopeRowsOf(rows, a, m, scope) == {h \in rows : InKeysOf(h, a, m) /\ h.scope = scope}

\* N rows of the key, none of them of activity a, rank before the candidate of a:
\* a is not among the first N
OutOfTopN(rows, a, m, scope) ==
    /\ ~\E h \in ScopeRowsOf(rows, a, m, scope) : h.activity_id = a.id
    /\ Cardinality({h \in ScopeRowsOf(rows, a, m, scope) :
                       \/ h.value > ValueOf(a, m)
                       \/ h.value = ValueOf(a, m) /\ h.activity_id > a.id}) >= HighlightN

\* C28: update_top_n_highlights for an activity and a metric changes no row
\* outside the activity's YEARLY key (user, metric, start year, type) and LIFETIME
\* key (user, metric, null, type), and a key the activity does not enter the top N
\* of keeps its rows.
C28_UpdateFrame ==
    last_call # NULL =>
        LET a == ActivityById(Val(last_call)[1])
            m == Val(last_call)[2]
        IN  /\ {h \in highlights : ~InKeysOf(h, a, m)} = {h \in hl_before : ~InKeysOf(h, a, m)}
            /\ \A scope \in {"yearly", "lifetime"} :
                  OutOfTopN(hl_before, a, m, scope) =>
                      ScopeRowsOf(highlights, a, m, scope) = ScopeRowsOf(hl_before, a, m, scope)

\* C28 witness: the update for activity 3 (20, year 2024) entered the YEARLY key
\* of 2024 at rank 3, stayed out of the full LIFETIME key, which kept its rows,
\* and left the YEARLY key of 2023 as it was.
C28_Witness ==
    /\ last_call = Some(<<3, "distance">>)
    /\ OutOfTopN(hl_before, ActivityById(3), "distance", "lifetime")
    /\ ~OutOfTopN(hl_before, ActivityById(3), "distance", "yearly")
    /\ \E h \in highlights : h.activity_id = 3 /\ h.scope = "yearly" /\ h.rank = 3
    /\ ~\E h \in highlights : h.activity_id = 3 /\ h.scope = "lifetime"
    /\ \E h \in highlights : h.scope = "yearly" /\ h.year = Some(2023)
    /\ highlights # hl_before


----------------------------------------------------------------------------
(* ISO weeks: the buckets of two weekly goals *)

\* two ranges [start, end) share a date
RangesOverlap(r1, r2) == r1[1] < r2[2] /\ r2[1] < r1[2]

\* C29: the date ranges get_week_date_range gives for two WEEKLY goals that pass
\* _validate_temporal_setup and differ in (year, week) share no date.
C29_WeeklyBucketsDisjoint ==
    (call # NULL /\ validate_temporal_setup("weekly", NULL, Some(Val(call).week))) =>
        \A y \in WeekYears, w \in WeekArgs :
            ( /\ validate_temporal_setup("weekly", NULL, Some(w))
              /\ <<y, w>> # <<Val(call).year, Val(call).week>> ) =>
                ~RangesOverlap(Val(ret), get_week_date_range(y, w))


----------------------------------------------------------------------------
(* Goal routes: the weekly goals add_goal makes for a month or a year *)

\* the goals the last route call stored
Created == goals \ goals_before

\* the last call was add_goal with temporal_type WEEKLY and no week
WeeklyFanOut ==
    /\ reply # NULL /\ Val(reply).op = "add_goal"
    /\ Val(reply).args.temporal_type = "weekly"
    /\ Val(reply).args.week = NULL

\* month of year, as the range [first day, first day of the next month)
MonthRange(year, month) ==
    <<Ordinal(year, month, 1), Ordinal(year, month, DaysInMonth(year, month)) + 1>>

\* C30: add_goal with WEEKLY, no week and a month M of year Y stores one goal
\* (Y, w) for each ISO week that overlaps M, each with a date range that overlaps
\* M; with no month it stores exactly one goal for each ISO week 1..W of Y.
C30_WeeklyFanOut ==
    WeeklyFanOut =>
        LET data == Val(reply).args
            Y == data.year
        IN  /\ \A g \in Created : g.year = Y /\ g.week # NULL /\ g.month = NULL
            /\ \A g1 \in Created, g2 \in Created : g1.week = g2.week => g1 = g2
            /\ data.month # NULL =>
                  /\ \A g \in Created :
                        RangesOverlap(get_week_date_range(Y, Val(g.week)), MonthRange(Y, Val(data.month)))
                  /\ Cardinality(Created) =
                        Cardinality({ISOYearWeek(d) : d \in MonthRange(Y, Val(data.month))[1] .. (MonthRange(Y, Val(data.month))[2] - 1)})
            /\ data.month = NULL =>
                  {Val(g.week) : g \in Created} = 1 .. ISOWeeksInYear(Y)

====
